---------------------------- MODULE Spec2Model ----------------------------
(***************************************************************************)
(* State-machine model of the gym-notes bot (src/ai_bot.py).               *)
(*                                                                         *)
(* The bot registers three command handlers (/note, /suggest, /query) on   *)
(* one Application, shares one module-level SQLAlchemy session between     *)
(* them, and asks a chat-completion model to (a) turn a note into JSON,    *)
(* (b) turn a question into SQL text, (c) summarise or comment the rows.   *)
(* Every await of the model is a step boundary; the code between two       *)
(* awaits of one handler is one action.                                    *)
(***************************************************************************)
EXTENDS Integers, Sequences, FiniteSets, TLC

\* Bounds of the model.
NumUsers == 2
MaxCommands == 2
MaxExercises == 2

Users == 1..NumUsers
Commands == {"note", "suggest", "query"}

VARIABLES
    update_queue,  \* updates received and not yet dispatched, in arrival order
    arrived,       \* number of updates received so far (the next one's index)
    tasks,         \* handler coroutines in flight, each suspended at an await
    session,       \* rows of gym_notes as the shared session's open transaction sees them
    gym_notes,     \* rows of gym_notes committed to the database file
    last,          \* the handler invocation that finished most recently
    saved          \* rows a /note command has saved (and replied "Note saved" for)

vars == <<update_queue, arrived, tasks, session, gym_notes, last, saved>>

-----------------------------------------------------------------------------
(* Texts of the program.                                                   *)

NoResultsText == "Query returned no results."
ExecErrorText == "An error occurred while executing the query: <exception>"
ModelText == "<text written by the model>"

NoReply == [kind |-> "none", text |-> ""]
NoteSavedReply == [kind |-> "note_saved", text |-> ModelText]
ClarificationReply == [kind |-> "clarification", text |-> ModelText]
SummaryReply(summary) == [kind |-> "summary", text |-> summary]
SuggestionsReply(suggestions) == [kind |-> "suggestions", text |-> suggestions]

-----------------------------------------------------------------------------
(* What the model may answer.                                              *)

\* A parse answer: text that is not JSON, JSON that is not an object, or an
\* object.  Of an object the code reads only missing_info; the number of
\* exercises it describes and whether its sets/reps/weights lengths agree
\* are properties of the answer that the code never inspects.
ParseBroken == {[json |-> "invalid", missing_info |-> FALSE, exercises |-> 0, lengthsOk |-> TRUE],
                [json |-> "array", missing_info |-> FALSE, exercises |-> 0, lengthsOk |-> TRUE]}
ParseObjects == {[json |-> "object", missing_info |-> m, exercises |-> n, lengthsOk |-> ok] :
                    m \in BOOLEAN, n \in 0..MaxExercises, ok \in BOOLEAN}
ParseAnswers == ParseBroken \cup {p \in ParseObjects : (p.exercises = 0 \/ p.missing_info) => p.lengthsOk}

\* SQL text: one statement over gym_notes.  scope is the user_id of its
\* WHERE clause (of its VALUES, for an insert); 0 stands for no WHERE clause.
SqlAnswers == [verb : {"select", "delete", "update"}, scope : {0} \cup Users]
              \cup [verb : {"insert"}, scope : Users]
              \cup [verb : {"malformed"}, scope : {0}]
NoSql == [verb |-> "none", scope |-> 0]

-----------------------------------------------------------------------------
(* The store.                                                              *)

\* json.dumps(parsed_note): the serialised object, kept in the note column.
JsonDumps(p) == <<p.exercises, p.lengthsOk>>
\* The note literal a generated UPDATE or INSERT writes.
SqlNoteLiteral == <<0, FALSE>>

RECURSIVE MaxId(_)
MaxId(rows) == IF rows = {} THEN 0
               ELSE LET r == CHOOSE x \in rows : TRUE
                        m == MaxId(rows \ {r})
                    IN IF r.id > m THEN r.id ELSE m

\* id INTEGER PRIMARY KEY: SQLite assigns the largest id in the table plus one.
NextRowId(rows) == MaxId(rows) + 1

GymNote(rows, user_id, note) == [id |-> NextRowId(rows), user_id |-> user_id, note |-> note]

Matching(rows, scope) == {r \in rows : scope = 0 \/ r.user_id = scope}

\* session.execute(text(sql_query)) followed by result.fetchall(): the rows
\* the session sees afterwards, the rows fetched, and whether an exception
\* was raised.  A statement that returns no rows is executed in the session's
\* open transaction and then fetchall() raises.
Execute(sql, rows) ==
    CASE sql.verb = "select" ->
            [session |-> rows, rows |-> Matching(rows, sql.scope), raised |-> FALSE]
      [] sql.verb = "delete" ->
            [session |-> rows \ Matching(rows, sql.scope), rows |-> {}, raised |-> TRUE]
      [] sql.verb = "update" ->
            [session |-> (rows \ Matching(rows, sql.scope))
                           \cup {[r EXCEPT !.note = SqlNoteLiteral] : r \in Matching(rows, sql.scope)},
             rows |-> {}, raised |-> TRUE]
      [] sql.verb = "insert" ->
            [session |-> rows \cup {GymNote(rows, sql.scope, SqlNoteLiteral)},
             rows |-> {}, raised |-> TRUE]
      [] OTHER ->
            [session |-> rows, rows |-> {}, raised |-> TRUE]

-----------------------------------------------------------------------------
(* Handler invocations.                                                    *)

NewTask(u) == [id |-> u.id, user |-> u.user, cmd |-> u.cmd,
               pc |-> IF u.cmd = "note" THEN "await_parse" ELSE "await_sql",
               sql |-> NoSql, executed |-> FALSE, rows |-> {}, raised |-> FALSE,
               calls |-> {IF u.cmd = "note" THEN "parse" ELSE "sql"}]

\* The record of a finished invocation.
Finished(t, outcome, reply, parsed, added) ==
    [id |-> t.id, user |-> t.user, cmd |-> t.cmd, outcome |-> outcome, reply |-> reply,
     sql |-> t.sql, executed |-> t.executed, rows |-> t.rows, raised |-> t.raised,
     calls |-> t.calls, parsed |-> parsed, added |-> added]

NoParse == [json |-> "none", missing_info |-> FALSE, exercises |-> 0, lengthsOk |-> TRUE]
NoTask == [id |-> 0, user |-> 0, cmd |-> "none", pc |-> "none", sql |-> NoSql,
           executed |-> FALSE, rows |-> {}, raised |-> FALSE, calls |-> {}]

\* gym_notes.db outlives the process and create_all keeps an existing table:
\* the bot starts on an empty table or on rows saved by /note in an earlier
\* run (here at most one, of any user).
EarlierNote == [json |-> "object", missing_info |-> FALSE, exercises |-> 1, lengthsOk |-> TRUE]
InitialNotes == {{}} \cup {{GymNote({}, u, JsonDumps(EarlierNote))} : u \in Users}

Init ==
    /\ update_queue = <<>>
    /\ arrived = 0
    /\ tasks = {}
    /\ gym_notes \in InitialNotes
    /\ session = gym_notes
    /\ last = Finished(NoTask, "none", NoReply, NoParse, 0)
    /\ saved = gym_notes

\* A user sends a command.
Arrive(user, cmd) ==
    /\ arrived < MaxCommands
    /\ arrived' = arrived + 1
    /\ update_queue' = Append(update_queue, [id |-> arrived + 1, user |-> user, cmd |-> cmd])
    /\ UNCHANGED <<tasks, session, gym_notes, last, saved>>

\* A concurrent dispatcher, as ApplicationBuilder().concurrent_updates(True) builds.
CanDispatchConcurrently == TRUE

\* The Application is built with its defaults: updates are processed one at
\* a time, each handler awaited to its end before the next update is fetched.
CanDispatch == tasks = {}

\* The Application takes the next update and calls its handler, which runs
\* to its first await (the request for the parse, or for the SQL text).
Dispatch ==
    /\ update_queue # <<>>
    /\ CanDispatch
    /\ tasks' = tasks \cup {NewTask(Head(update_queue))}
    /\ update_queue' = Tail(update_queue)
    /\ UNCHANGED <<arrived, session, gym_notes, last, saved>>

\* The request to the model raises (an API or network error) at an await
\* outside any try block: the exception leaves the handler, no reply is sent.
ModelCallFails(t) ==
    /\ t.pc \in {"await_parse", "await_sql", "await_suggestions"}
    /\ tasks' = tasks \ {t}
    /\ last' = Finished(t, "escaped", NoReply, NoParse, 0)
    /\ UNCHANGED <<update_queue, arrived, session, gym_notes, saved>>

\* note_handler from the return of parse_gym_note's request to its end.
NoteParsed(t, p) ==
    /\ t.pc = "await_parse"
    /\ tasks' = tasks \ {t}
    /\ IF p.json # "object"
       THEN \* json.loads raises (ValueError), or .get is no method of a list
            /\ last' = Finished(t, "escaped", NoReply, p, 0)
            /\ UNCHANGED <<session, gym_notes, saved>>
       ELSE IF p.missing_info
       THEN /\ last' = Finished(t, "clarification", ClarificationReply, p, 0)
            /\ UNCHANGED <<session, gym_notes, saved>>
       ELSE LET gym_note == GymNote(session, t.user, JsonDumps(p))
                after == session \cup {gym_note}
            IN /\ session' = after
               /\ gym_notes' = after
               /\ saved' = saved \cup {gym_note}
               /\ last' = Finished(t, "ok", NoteSavedReply, p, Cardinality(after \ gym_notes))
    /\ UNCHANGED <<update_queue, arrived>>

\* query_handler from the return of the SQL request to the next await or to
\* its end.
QuerySqlGenerated(t, sql) ==
    /\ t.cmd = "query"
    /\ t.pc = "await_sql"
    /\ LET x == Execute(sql, session)
           t2 == [t EXCEPT !.sql = sql, !.executed = TRUE, !.rows = x.rows, !.raised = x.raised]
       IN /\ session' = x.session
          /\ IF x.raised
             THEN /\ tasks' = tasks \ {t}
                  /\ last' = Finished(t2, "caught", SummaryReply(ExecErrorText), NoParse, 0)
             ELSE IF x.rows = {}
             THEN /\ tasks' = tasks \ {t}
                  /\ last' = Finished(t2, "ok", SummaryReply(""), NoParse, 0)
             ELSE /\ tasks' = (tasks \ {t}) \cup
                        {[t2 EXCEPT !.pc = "await_summary", !.calls = @ \cup {"summary"}]}
                  /\ UNCHANGED last
    /\ UNCHANGED <<update_queue, arrived, gym_notes, saved>>

\* query_handler from the return of the summary request to its end; a
\* failed request is caught by the handler's except clause.
QuerySummarised(t, failed) ==
    /\ t.pc = "await_summary"
    /\ tasks' = tasks \ {t}
    /\ last' = IF failed
               THEN Finished(t, "caught", SummaryReply(ExecErrorText), NoParse, 0)
               ELSE Finished(t, "ok", SummaryReply(ModelText), NoParse, 0)
    /\ UNCHANGED <<update_queue, arrived, session, gym_notes, saved>>

\* suggest_handler: query_database from the return of the SQL request to its
\* end, then the request for suggestions, whatever query_database returned.
SuggestSqlGenerated(t, sql) ==
    /\ t.cmd = "suggest"
    /\ t.pc = "await_sql"
    /\ LET x == Execute(sql, session)
       IN /\ session' = x.session
          /\ tasks' = (tasks \ {t}) \cup
                {[t EXCEPT !.sql = sql, !.executed = TRUE, !.rows = x.rows, !.raised = x.raised,
                           !.pc = "await_suggestions", !.calls = @ \cup {"suggestions"}]}
    /\ UNCHANGED <<update_queue, arrived, gym_notes, last, saved>>

\* suggest_handler from the return of the suggestions request to its end.
Suggested(t) ==
    /\ t.pc = "await_suggestions"
    /\ tasks' = tasks \ {t}
    /\ last' = Finished(t, "ok", SuggestionsReply(ModelText), NoParse, 0)
    /\ UNCHANGED <<update_queue, arrived, session, gym_notes, saved>>

Next ==
    \/ \E user \in Users, cmd \in Commands : Arrive(user, cmd)
    \/ Dispatch
    \/ \E t \in tasks : ModelCallFails(t)
    \/ \E t \in tasks, p \in ParseAnswers : NoteParsed(t, p)
    \/ \E t \in tasks, sql \in SqlAnswers : QuerySqlGenerated(t, sql)
    \/ \E t \in tasks, failed \in BOOLEAN : QuerySummarised(t, failed)
    \/ \E t \in tasks, sql \in SqlAnswers : SuggestSqlGenerated(t, sql)
    \/ \E t \in tasks : Suggested(t)

Spec == Init /\ [][Next]_vars

-----------------------------------------------------------------------------
(* The claims.                                                             *)

\* The invocations whose SQL text has been handed to the session: the one
\* that finished last and those still awaiting the model.
Read(x) == [user |-> x.user, cmd |-> x.cmd, sql |-> x.sql, rows |-> x.rows, raised |-> x.raised]
Executed == {Read(t) : t \in {y \in tasks : y.executed}}
            \cup (IF last.executed THEN {Read(last)} ELSE {})

\* The statements that change rows, among those the model may write.
ModifyingVerbs == {"insert", "update", "delete"}

ExtractionFailed(p) == p.json \in {"invalid", "array"} \/ (p.json = "object" /\ p.missing_info)
Failed(outcome) == outcome \in {"caught", "escaped"}

\* C1: a query command whose generated text holds a modifying keyword
\* (insert, update, delete, ...) is rejected and its text never reaches the
\* store: no such text is ever executed for a query command.
C1_ModifyingQueryNeverExecuted ==
    \A x \in Executed : x.cmd = "query" => x.sql.verb \notin ModifyingVerbs

\* C2: the rows handed back to a query command of user A never include a
\* row whose user_id is another user's (a query not scoped to the caller
\* being rejected, not executed).
C2_RowsBelongToCaller ==
    \A x \in Executed : x.cmd = "query" => \A r \in x.rows : r.user_id = x.user

\* C3: the record store is append-only: every committed row stays committed
\* with the same id, user_id and note, whatever command runs next.
C3_AppendOnly ==
    [][\A r \in gym_notes : r \in gym_notes']_vars

\* C4: a finished note command has added as many records to the store as the
\* extraction returned drafts, or none if a draft is invalid (or the
\* extraction failed).
C4_AddedEqualsDraftsOrZero ==
    last.cmd = "note" =>
        last.added = IF last.parsed.json = "object" /\ ~last.parsed.missing_info
                         /\ last.parsed.lengthsOk
                      THEN last.parsed.exercises ELSE 0

\* C5: when the extraction of a note fails (the answer is no well-formed
\* object, or logically required information is missing), nothing is
\* persisted and the reply is a fixed failure message.
C5_ExtractionFailureFixedReply ==
    (last.cmd = "note" /\ ExtractionFailed(last.parsed)) =>
        /\ last.added = 0
        /\ last.reply.kind # "none"
        /\ last.reply.text \notin {ModelText, ExecErrorText}

\* C6: every error raised while a note or query command is handled (the
\* extraction does not parse, the query does not execute) is caught and
\* answered with one fixed reply that holds no raw error text.
C6_ErrorsAnsweredWithFixedReply ==
    (/\ Failed(last.outcome)
     /\ \/ last.cmd = "note" /\ ExtractionFailed(last.parsed)
        \/ last.cmd = "query" /\ last.executed) =>
        /\ last.reply.kind # "none"
        /\ last.reply.text \notin {ModelText, ExecErrorText}

\* C7: a command that ended in an error leaves no pending effect in the
\* shared session for a later command to observe or commit.
C7_FailedCommandLeavesNothingPending ==
    Failed(last.outcome) => session = gym_notes

\* C8: when the executed query returns no rows, the answer is the fixed
\* no-results text and no summary or suggestions request is made.
C8_EmptyResultFixedAnswerNoModelCall ==
    (last.cmd \in {"query", "suggest"} /\ last.executed /\ ~last.raised /\ last.rows = {}) =>
        /\ last.reply.text = NoResultsText
        /\ last.calls \cap {"summary", "suggestions"} = {}

\* C9: the commands of one user are serialized: no two handler invocations
\* of one user are in flight together, a command that arrives while another
\* of the same user awaits the model stays queued behind it (arrival order),
\* and every row a note command has reported saved was committed by that
\* command, before the next one began.
C9_PerUserSerialized ==
    /\ \A t1, t2 \in tasks : t1.user = t2.user => t1 = t2
    /\ \A t \in tasks : \A i \in 1..Len(update_queue) :
            update_queue[i].user = t.user => update_queue[i].id > t.id
    /\ \A t \in tasks : last.user = t.user => last.id < t.id
    /\ \A i \in 1..Len(update_queue) : \A j \in 1..Len(update_queue) :
            i < j => update_queue[i].id < update_queue[j].id
    /\ \A r \in saved : r \in session => r \in gym_notes

\* A user's second command has arrived while the first awaits the model.
C9_Witness ==
    \E t \in tasks : \E i \in 1..Len(update_queue) :
        update_queue[i].user = t.user /\ t.pc \in {"await_parse", "await_sql", "await_summary"}

\* C10: once a note command has saved a row for a user, every later query
\* that selects by that user_id returns that row, fields unchanged.
C10_SavedRowsReadBack ==
    \A x \in Executed :
        (x.cmd = "query" /\ x.sql = [verb |-> "select", scope |-> x.user]) =>
            \A r \in saved : r.user_id = x.user => r \in x.rows

=============================================================================
